---- MODULE Spec2Model ----
(***************************************************************************)
(* Quick Sort visualizer (src/src/App.tsx).                                *)
(*                                                                         *)
(* Two layers are modelled:                                                *)
(*   - the trace engine generateSteps / quickSort, as a step machine with  *)
(*     an explicit call stack and an explicit heap of ArrayBar objects     *)
(*     (JavaScript arrays hold references; [...arr] copies references);    *)
(*   - the React component state (steps, currentStepIndex, isPlaying,      *)
(*     animationSpeed, arraySize), its handlers and its playback effect.   *)
(*     The state variables hold the state with every queued update         *)
(*     applied; `rendered` holds what the last render captured.            *)
(*                                                                         *)
(* Array indices keep the source's 0-based numbering; TLA+ sequences are   *)
(* 1-based, so the element at source index k of a sequence a is a[k + 1].  *)
(***************************************************************************)
EXTENDS Integers, Sequences, FiniteSets, TLC

VARIABLES
    \* ---- one activation of generateSteps (the call made by the mount effect)
    pc,               \* position in generateSteps
    input,            \* parameter `array`
    heap,             \* ArrayBar objects, addressed by their index in this sequence
    bars,             \* const bars: references to the objects made from the input
    arr,              \* arrayBars (aliased as arr inside quickSort): references
    steps,            \* local const steps: Step[]
    partitionCount,   \* let partitionCount
    stack,            \* activation records of quickSort, innermost last
    \* ---- React state of QuickSortVisualizer
    stepsState,       \* useState<Step[]>  (steps)
    currentStepIndex, \* useState(0)
    isPlaying,        \* useState(false)
    animationSpeed,   \* useState(DEFAULT_ANIMATION_SPEED)
    arraySize,        \* useState(8)
    timer,            \* the pending setTimeout of the playback effect: 0 = none, else its delay
    effectDue,        \* a dependency of the playback effect changed since the effect last ran
    rendered          \* the state the last render captured: what the handlers' closures read

engineVars == <<pc, input, heap, bars, arr, steps, partitionCount, stack>>
uiVars == <<stepsState, currentStepIndex, isPlaying, animationSpeed, arraySize, timer, effectDue,
            rendered>>
vars == <<pc, input, heap, bars, arr, steps, partitionCount, stack,
          stepsState, currentStepIndex, isPlaying, animationSpeed, arraySize, timer, effectDue,
          rendered>>

----------------------------------------------------------------------------
(* Program constants *)

INITIAL_ARRAY == <<19, 28, 37, 38, 39, 39, 8, 9>>

DEFAULT_ANIMATION_SPEED == 1000

InitialArraySize == 8

ArraySizeOptions == {4, 6, 8, 10, 12}

SpeedMin == 100

SpeedMax == 2000

SpeedStep == 100

RandomSpan == 90

RandomBase == 10

----------------------------------------------------------------------------
(* Bounds of the model *)

\* inputs on which generateSteps is explored: every sequence of length 0..MaxLen over 1..MaxVal
MaxLen == 4

MaxVal == 3

\* Math.random: number of draw sequences explored
MaxSeed == 2

\* speed slider: positions explored on each side of the default
SpeedRadius == 1

\* cursors examined on each side of the trace by the accessor properties
CursorMargin == 2

----------------------------------------------------------------------------
(* Small helpers for 0-based indexing *)

\* a[k] of the source
At(a, k) == a[k + 1]

\* SwapRefs with the second assignment lost: a[x] = a[y] only
SwapRefsLossy(a, x, y) ==
    [k \in 1..Len(a) |-> IF k = x + 1 THEN a[y + 1] ELSE a[k]]

\* the array a after  [a[x], a[y]] = [a[y], a[x]]
SwapRefs(a, x, y) ==
    [k \in 1..Len(a) |-> IF k = x + 1 THEN a[y + 1]
                         ELSE IF k = y + 1 THEN a[x + 1]
                         ELSE a[k]]

\* references of n objects allocated at the end of heap h
FreshRefs(h, n) == [k \in 1..n |-> Len(h) + k]

----------------------------------------------------------------------------
(* The engine: generateSteps and its inner quickSort.                      *)
(* An engine state is a record e with the fields of engineVars.            *)

Eng == [pc |-> pc, input |-> input, heap |-> heap, bars |-> bars, arr |-> arr,
        steps |-> steps, partitionCount |-> partitionCount, stack |-> stack]

\* the state at the call generateSteps(array), before its first statement
EngEntry(array) ==
    [pc |-> "begin", input |-> array, heap |-> <<>>, bars |-> <<>>, arr |-> <<>>,
     steps |-> <<>>, partitionCount |-> 0, stack |-> <<>>]

Top(e) == e.stack[Len(e.stack)]

Pop(s) == SubSeq(s, 1, Len(s) - 1)

SetTop(s, f) == [s EXCEPT ![Len(s)] = f]

\* StartTag leaving the range's first index out: idx > low
StartTagOpenLow(idx, low, high) ==
    IF idx = high THEN "pivot"
    ELSE IF idx > low /\ idx <= high THEN "active"
    ELSE "default"

\* state tag of index idx in the partition-start step of [low, high]
StartTag(idx, low, high) ==
    IF idx = high THEN "pivot"
    ELSE IF idx >= low /\ idx <= high THEN "active"
    ELSE "default"

\* CompareTag testing idx >= high for the pivot tag
CompareTagWide(idx, j, low, high) ==
    IF idx >= high THEN "pivot"
    ELSE IF idx = j THEN "comparing"
    ELSE IF idx >= low /\ idx <= high THEN "active"
    ELSE "default"

\* state tag of index idx in the comparison step for j in [low, high]
CompareTag(idx, j, low, high) ==
    IF idx = high THEN "pivot"
    ELSE IF idx = j THEN "comparing"
    ELSE IF idx >= low /\ idx <= high THEN "active"
    ELSE "default"

\* a value of type number is an integer or NaN; NaN is written as this code, which
\* is the value of no number in the inputs explored
NaN == -1

\* `${v}` for a number v
NumberToString(v) == IF v = NaN THEN "NaN" ELSE ToString(v)

\* GoesLeft with a strict test: arr[j].value < pivot
GoesLeftStrict(v, pivot) == v # NaN /\ pivot # NaN /\ v < pivot

\* the test of the comparison loop: arr[j].value <= pivot, false when either side is NaN
GoesLeft(v, pivot) == v # NaN /\ pivot # NaN /\ v <= pivot

\* PivotSource taking the first element of the range: pivot = arr[low].value
PivotSourceFirst(low, high) == low

\* line 73: the index the pivot value is read from, pivot = arr[high].value
PivotSource(low, high) == high

\* NonTrivial admitting one-element ranges: low <= high
NonTrivialLoose(low, high) == low <= high

\* line 71: if (low < high)
NonTrivial(low, high) == low < high

\* BoundaryStart beginning at the range's first index: let i = low
BoundaryStartAtLow(low) == low

\* line 74: let i = low - 1
BoundaryStart(low) == low - 1

\* Children with the two recursive calls exchanged
ChildrenRightFirst(f) ==
    << [pc |-> "entry", low |-> f.i + 2, high |-> f.high],
       [pc |-> "entry", low |-> f.low, high |-> f.i] >>

\* Children with the right call starting at the pivot's position:
\* quickSort(arr, i + 1, high)
ChildrenKeepPivot(f) ==
    << [pc |-> "entry", low |-> f.low, high |-> f.i],
       [pc |-> "entry", low |-> f.i + 1, high |-> f.high] >>

\* lines 130-131: the two recursive calls, in program order
Children(f) ==
    << [pc |-> "entry", low |-> f.low, high |-> f.i],
       [pc |-> "entry", low |-> f.i + 2, high |-> f.high] >>

\* Begin with the initial step's pivotIndex left at 0
BeginPivotZero(e) ==
    LET n == Len(e.input)
        objs == [k \in 1..n |-> [value |-> e.input[k], state |-> "default"]]
        refs == FreshRefs(e.heap, n)
    IN [e EXCEPT
          !.heap = e.heap \o objs,
          !.bars = refs,
          !.partitionCount = 0,
          !.steps = << [array |-> refs,
                        pivotIndex |-> 0,
                        comparing |-> <<>>,
                        activeLineNumber |-> 1,
                        description |-> "Starting Quick Sort algorithm",
                        partitionInfo |-> "Initializing Quick Sort"] >>,
          !.pc = "sort"]

\* Begin with partitionCount declared outside generateSteps: the counter is not
\* reset by a call
BeginKeepCount(e) ==
    LET n == Len(e.input)
        objs == [k \in 1..n |-> [value |-> e.input[k], state |-> "default"]]
        refs == FreshRefs(e.heap, n)
    IN [e EXCEPT
          !.heap = e.heap \o objs,
          !.bars = refs,
          !.steps = << [array |-> refs,
                        pivotIndex |-> -1,
                        comparing |-> <<>>,
                        activeLineNumber |-> 1,
                        description |-> "Starting Quick Sort algorithm",
                        partitionInfo |-> "Initializing Quick Sort"] >>,
          !.pc = "sort"]

\* lines 57-68: steps = [], bars = array.map(...), partitionCount = 0, initial step
Begin(e) ==
    LET n == Len(e.input)
        objs == [k \in 1..n |-> [value |-> e.input[k], state |-> "default"]]
        refs == FreshRefs(e.heap, n)
    IN [e EXCEPT
          !.heap = e.heap \o objs,
          !.bars = refs,
          !.partitionCount = 0,
          !.steps = << [array |-> refs,
                        pivotIndex |-> -1,
                        comparing |-> <<>>,
                        activeLineNumber |-> 1,
                        description |-> "Starting Quick Sort algorithm",
                        partitionInfo |-> "Initializing Quick Sort"] >>,
          !.pc = "sort"]

\* lines 135-136: arrayBars = [...bars]; quickSort(arrayBars, 0, arrayBars.length - 1)
CallTop(e) ==
    [e EXCEPT
       !.arr = e.bars,
       !.stack = << [pc |-> "entry", low |-> 0, high |-> Len(e.bars) - 1] >>,
       !.pc = "run"]

\* line 71 false: quickSort(arr, low, high) with low >= high returns at once
QsBase(e) == [e EXCEPT !.stack = Pop(e.stack)]

\* lines 72-87 and the loop initialisation j = low of line 89
QsStart(e) ==
    LET f == Top(e)
        n == Len(e.arr)
        objs == [k \in 1..n |->
                   [value |-> e.heap[e.arr[k]].value,
                    state |-> StartTag(k - 1, f.low, f.high)]]
        refs == FreshRefs(e.heap, n)
    IN [e EXCEPT
          !.partitionCount = e.partitionCount + 1,
          !.heap = e.heap \o objs,
          !.steps = Append(e.steps,
                      [array |-> refs,
                       pivotIndex |-> f.high,
                       comparing |-> <<>>,
                       activeLineNumber |-> 2,
                       description |-> "Working with partition [" \o ToString(f.low)
                                       \o " to " \o ToString(f.high) \o "]",
                       partitionInfo |-> "Working on partition [" \o ToString(f.low)
                                       \o " to " \o ToString(f.high)
                                       \o "]. Since partition size == "
                                       \o ToString(f.high - f.low + 1)
                                       \o ", elements inside partition will be sorted."]),
          !.stack = SetTop(e.stack,
                      [pc |-> "loop", low |-> f.low, high |-> f.high,
                       pivot |-> e.heap[At(e.arr, PivotSource(f.low, f.high))].value,
                       i |-> BoundaryStart(f.low), j |-> f.low])]

\* lines 89-102: j < high, the comparison step
Compare(e) ==
    LET f == Top(e)
        n == Len(e.arr)
        objs == [k \in 1..n |->
                   [value |-> e.heap[e.arr[k]].value,
                    state |-> CompareTag(k - 1, f.j, f.low, f.high)]]
        refs == FreshRefs(e.heap, n)
    IN [e EXCEPT
          !.heap = e.heap \o objs,
          !.steps = Append(e.steps,
                      [array |-> refs,
                       pivotIndex |-> f.high,
                       comparing |-> <<f.j>>,
                       activeLineNumber |-> 3,
                       description |-> "Comparing " \o NumberToString(e.heap[At(e.arr, f.j)].value)
                                       \o " with pivot " \o NumberToString(f.pivot),
                       partitionInfo |-> "Comparing elements in partition ["
                                       \o ToString(f.low) \o " to "
                                       \o ToString(f.high) \o "]"]),
          !.stack = SetTop(e.stack, [f EXCEPT !.pc = "test"])]

\* SwapStep exchanging the value fields of the two objects instead of the two
\* array elements: arr[i].value <-> arr[j].value
SwapStepInPlace(e) ==
    LET f == Top(e)
        i2 == f.i + 1
        oi == At(e.arr, i2)
        oj == At(e.arr, f.j)
        h2 == [e.heap EXCEPT ![oi].value = e.heap[oj].value,
                             ![oj].value = e.heap[oi].value]
    IN [e EXCEPT
          !.heap = h2,
          !.steps = Append(e.steps,
                      [array |-> e.arr,
                       pivotIndex |-> f.high,
                       comparing |-> <<i2, f.j>>,
                       activeLineNumber |-> 4,
                       description |-> "Swapped " \o NumberToString(h2[oi].value)
                                       \o " and " \o NumberToString(h2[oj].value),
                       partitionInfo |-> "Swapping elements to maintain partition order"]),
          !.stack = SetTop(e.stack, [f EXCEPT !.i = i2, !.j = f.j + 1, !.pc = "loop"])]

\* SwapStep deriving the highlighting afresh, as the comparison step does
SwapStepRetagged(e) ==
    LET f == Top(e)
        i2 == f.i + 1
        a2 == SwapRefs(e.arr, i2, f.j)
        n == Len(e.arr)
        objs == [k \in 1..n |->
                   [value |-> e.heap[a2[k]].value,
                    state |-> CompareTag(k - 1, f.j, f.low, f.high)]]
        refs == FreshRefs(e.heap, n)
    IN [e EXCEPT
          !.arr = a2,
          !.heap = e.heap \o objs,
          !.steps = Append(e.steps,
                      [array |-> refs,
                       pivotIndex |-> f.high,
                       comparing |-> <<i2, f.j>>,
                       activeLineNumber |-> 4,
                       description |-> "Swapped " \o NumberToString(e.heap[At(a2, i2)].value)
                                       \o " and " \o NumberToString(e.heap[At(a2, f.j)].value),
                       partitionInfo |-> "Swapping elements to maintain partition order"]),
          !.stack = SetTop(e.stack, [f EXCEPT !.i = i2, !.j = f.j + 1, !.pc = "loop"])]

\* lines 104-116 with the test true, then j++
SwapStep(e) ==
    LET f == Top(e)
        i2 == f.i + 1
        a2 == SwapRefs(e.arr, i2, f.j)
    IN [e EXCEPT
          !.arr = a2,
          !.steps = Append(e.steps,
                      [array |-> a2,
                       pivotIndex |-> f.high,
                       comparing |-> <<i2, f.j>>,
                       activeLineNumber |-> 4,
                       description |-> "Swapped " \o NumberToString(e.heap[At(a2, i2)].value)
                                       \o " and " \o NumberToString(e.heap[At(a2, f.j)].value),
                       partitionInfo |-> "Swapping elements to maintain partition order"]),
          !.stack = SetTop(e.stack, [f EXCEPT !.i = i2, !.j = f.j + 1, !.pc = "loop"])]

\* line 104 with the test false, then j++
NoSwap(e) ==
    LET f == Top(e)
    IN [e EXCEPT !.stack = SetTop(e.stack, [f EXCEPT !.j = f.j + 1, !.pc = "loop"])]

\* PlacePivot recording the boundary instead of the pivot's position: pivotIndex: i
PlacePivotRecordsBoundary(e) ==
    LET f == Top(e)
        a2 == SwapRefs(e.arr, f.i + 1, f.high)
    IN [e EXCEPT
          !.arr = a2,
          !.steps = Append(e.steps,
                      [array |-> a2,
                       pivotIndex |-> f.i,
                       comparing |-> <<>>,
                       activeLineNumber |-> 5,
                       description |-> "Placed pivot " \o NumberToString(f.pivot)
                                       \o " at position " \o ToString(f.i + 1),
                       partitionInfo |-> "Partition " \o ToString(e.partitionCount)
                                       \o " complete"]),
          !.stack = SetTop(e.stack, [f EXCEPT !.pc = "left"])]

\* lines 119-128: the loop is over; pivot swap and the pivot-placed step
PlacePivot(e) ==
    LET f == Top(e)
        a2 == SwapRefs(e.arr, f.i + 1, f.high)
    IN [e EXCEPT
          !.arr = a2,
          !.steps = Append(e.steps,
                      [array |-> a2,
                       pivotIndex |-> f.i + 1,
                       comparing |-> <<>>,
                       activeLineNumber |-> 5,
                       description |-> "Placed pivot " \o NumberToString(f.pivot)
                                       \o " at position " \o ToString(f.i + 1),
                       partitionInfo |-> "Partition " \o ToString(e.partitionCount)
                                       \o " complete"]),
          !.stack = SetTop(e.stack, [f EXCEPT !.pc = "left"])]

\* RecurseLeft taking i for the pivot's position: quickSort(arr, low, i - 1)
RecurseLeftShort(e) ==
    LET f == Top(e)
    IN [e EXCEPT !.stack = Append(SetTop(e.stack, [f EXCEPT !.pc = "right"]),
                                  [pc |-> "entry", low |-> f.low, high |-> f.i - 1])]

\* line 130: quickSort(arr, low, i)
RecurseLeft(e) ==
    LET f == Top(e)
    IN [e EXCEPT !.stack = Append(SetTop(e.stack, [f EXCEPT !.pc = "right"]),
                                  Children(f)[1])]

\* line 131: quickSort(arr, i + 2, high)
RecurseRight(e) ==
    LET f == Top(e)
    IN [e EXCEPT !.stack = Append(SetTop(e.stack, [f EXCEPT !.pc = "ret"]),
                                  Children(f)[2])]

\* line 132-133: the end of quickSort's body
QsReturn(e) == [e EXCEPT !.stack = Pop(e.stack)]

\* lines 138-145: the terminal step, after the top-level quickSort returned
Finish(e) ==
    LET n == Len(e.arr)
        objs == [k \in 1..n |-> [value |-> e.heap[e.arr[k]].value, state |-> "sorted"]]
        refs == FreshRefs(e.heap, n)
    IN [e EXCEPT
          !.heap = e.heap \o objs,
          !.steps = Append(e.steps,
                      [array |-> refs,
                       pivotIndex |-> -1,
                       comparing |-> <<>>,
                       activeLineNumber |-> 6,
                       description |-> "Array is now sorted!",
                       partitionInfo |-> "Quick Sort complete after "
                                       \o ToString(e.partitionCount) \o " partitions"]),
          !.pc = "return"]

\* where control is
AtBegin(e) == e.pc = "begin"
AtSort(e) == e.pc = "sort"
InQs(e, p) == e.pc = "run" /\ Len(e.stack) > 0 /\ Top(e).pc = p
AtBase(e) == InQs(e, "entry") /\ ~NonTrivial(Top(e).low, Top(e).high)
AtStart(e) == InQs(e, "entry") /\ NonTrivial(Top(e).low, Top(e).high)
AtCompare(e) == InQs(e, "loop") /\ Top(e).j < Top(e).high
AtPlace(e) == InQs(e, "loop") /\ ~(Top(e).j < Top(e).high)
AtSwap(e) == InQs(e, "test") /\ GoesLeft(e.heap[At(e.arr, Top(e).j)].value, Top(e).pivot)
AtNoSwap(e) == InQs(e, "test") /\ ~GoesLeft(e.heap[At(e.arr, Top(e).j)].value, Top(e).pivot)
AtFinish(e) == e.pc = "run" /\ Len(e.stack) = 0
AtReturn(e) == e.pc = "return"

\* one statement-level step of generateSteps
EngStep(e) ==
    CASE AtBegin(e) -> Begin(e)
      [] AtSort(e) -> CallTop(e)
      [] AtBase(e) -> QsBase(e)
      [] AtStart(e) -> QsStart(e)
      [] AtCompare(e) -> Compare(e)
      [] AtSwap(e) -> SwapStep(e)
      [] AtNoSwap(e) -> NoSwap(e)
      [] AtPlace(e) -> PlacePivot(e)
      [] InQs(e, "left") -> RecurseLeft(e)
      [] InQs(e, "right") -> RecurseRight(e)
      [] InQs(e, "ret") -> QsReturn(e)
      [] AtFinish(e) -> Finish(e)

RECURSIVE EngRun(_)
\* generateSteps run to its return statement
EngRun(e) == IF AtReturn(e) THEN e ELSE EngRun(EngStep(e))

\* a Step as a consumer reads it: the references of its array resolved in heap h
StepView(s, h) ==
    [array |-> [k \in 1..Len(s.array) |-> h[s.array[k]]],
     pivotIndex |-> s.pivotIndex,
     comparing |-> s.comparing,
     activeLineNumber |-> s.activeLineNumber,
     description |-> s.description,
     partitionInfo |-> s.partitionInfo]

TraceView(ss, h) == [k \in 1..Len(ss) |-> StepView(ss[k], h)]

\* lines 56-148: the value of generateSteps(array)
generateSteps(array) ==
    LET e == EngRun(EngEntry(array)) IN TraceView(e.steps, e.heap)

----------------------------------------------------------------------------
(* Engine actions *)

SetEng(e) ==
    /\ pc' = e.pc
    /\ input' = e.input
    /\ heap' = e.heap
    /\ bars' = e.bars
    /\ arr' = e.arr
    /\ steps' = e.steps
    /\ partitionCount' = e.partitionCount
    /\ stack' = e.stack

DoBegin == AtBegin(Eng) /\ SetEng(Begin(Eng)) /\ UNCHANGED uiVars
DoCallTop == AtSort(Eng) /\ SetEng(CallTop(Eng)) /\ UNCHANGED uiVars
DoQsBase == AtBase(Eng) /\ SetEng(QsBase(Eng)) /\ UNCHANGED uiVars
DoQsStart == AtStart(Eng) /\ SetEng(QsStart(Eng)) /\ UNCHANGED uiVars
DoCompare == AtCompare(Eng) /\ SetEng(Compare(Eng)) /\ UNCHANGED uiVars
DoSwapStep == AtSwap(Eng) /\ SetEng(SwapStep(Eng)) /\ UNCHANGED uiVars
DoNoSwap == AtNoSwap(Eng) /\ SetEng(NoSwap(Eng)) /\ UNCHANGED uiVars
DoPlacePivot == AtPlace(Eng) /\ SetEng(PlacePivot(Eng)) /\ UNCHANGED uiVars
DoRecurseLeft == InQs(Eng, "left") /\ SetEng(RecurseLeft(Eng)) /\ UNCHANGED uiVars
DoRecurseRight == InQs(Eng, "right") /\ SetEng(RecurseRight(Eng)) /\ UNCHANGED uiVars
DoQsReturn == InQs(Eng, "ret") /\ SetEng(QsReturn(Eng)) /\ UNCHANGED uiVars
DoFinish == AtFinish(Eng) /\ SetEng(Finish(Eng)) /\ UNCHANGED uiVars

EngineNext ==
    \/ DoBegin
    \/ DoCallTop
    \/ DoQsBase
    \/ DoQsStart
    \/ DoCompare
    \/ DoSwapStep
    \/ DoNoSwap
    \/ DoPlacePivot
    \/ DoRecurseLeft
    \/ DoRecurseRight
    \/ DoQsReturn
    \/ DoFinish

----------------------------------------------------------------------------
(* Math.random and generateRandomArray.                                    *)
(* Math.random is a generator outside the program; its outcomes are drawn  *)
(* from a bounded family of draw sequences, one per seed.  Draw(seed, k)   *)
(* is Math.floor(Math.random() * 90) of the k-th call, a number in 0..89.  *)

Draw(seed, k) == (seed * 37 + k * k * 11 + seed * k * 29) % RandomSpan

\* lines 52-54: Array.from({ length: size }, () => Math.floor(Math.random() * 90) + 10)
generateRandomArray(size, seed) == [k \in 1..size |-> Draw(seed, k) + RandomBase]

Seeds == 1..MaxSeed

\* the range input of lines 289-297 offers min..max in steps; the model explores
\* the values within SpeedRadius steps of the default
Speeds ==
    {v \in SpeedMin..SpeedMax :
        /\ v % SpeedStep = 0
        /\ v - DEFAULT_ANIMATION_SPEED <= SpeedRadius * SpeedStep
        /\ DEFAULT_ANIMATION_SPEED - v <= SpeedRadius * SpeedStep}

\* the traces of the random arrays, computed once
RandomTrace ==
    [size \in ArraySizeOptions, seed \in Seeds |->
        generateSteps(generateRandomArray(size, seed))]

----------------------------------------------------------------------------
(* The component: accessor, handlers, effects *)

\* JavaScript's undefined, as the value of an out-of-range array read
Undefined == [undefined |-> TRUE]

\* ss[k] of the source for a Step[] ss
StepAt(ss, k) == IF k >= 0 /\ k < Len(ss) THEN ss[k + 1] ELSE Undefined

\* line 166: const currentStep = steps[currentStepIndex] || steps[0]
currentStepOf(ss, idx) ==
    IF StepAt(ss, idx) # Undefined THEN StepAt(ss, idx) ELSE StepAt(ss, 0)

currentStep == currentStepOf(stepsState, currentStepIndex)

\* what a render captures of the state: the values the closures of the handlers
\* (lines 168-196) and the JSX read until the next render
Captured(idx, playing, ss, size) ==
    [currentStepIndex |-> idx, isPlaying |-> playing, length |-> Len(ss), arraySize |-> size]

\* the last render shows the state as it is: no queued update is waiting for a render
Committed == rendered = Captured(currentStepIndex, isPlaying, stepsState, arraySize)

\* The browser can run a task (an event handler, a timeout callback): the mount
\* effect is over and no synchronous flush is under way.  An update queued by an
\* event handler is rendered, and the effect of that render run, before the next
\* task.  An update queued by a timeout callback or by an effect is rendered in a
\* later task: until then `rendered` is behind the state, and a handler that runs
\* in between tests the values of the last render (lines 185, 192) while its
\* updater functions (prev => prev + 1) apply to the queued state.
\* The step buttons are disabled at a rendered currentStepIndex of 0 and of
\* steps.length - 1 (lines 323, 356); there the handlers change nothing, so leaving
\* them enabled adds no state.
Idle == pc = "done" /\ (effectDue => ~Committed)

\* the dependency list of the playback effect, line 164
DepsChanged ==
    \/ isPlaying' # isPlaying
    \/ currentStepIndex' # currentStepIndex
    \/ Len(stepsState') # Len(stepsState)
    \/ animationSpeed' # animationSpeed

\* the render that follows an event handler's updates, before the next task
RenderNow == rendered' = Captured(currentStepIndex', isPlaying', stepsState', arraySize')

\* the index after setCurrentStepIndex(prev => prev + 1)
Advance(idx) == idx + 1

\* the index after setCurrentStepIndex(prev => prev - 1)
Retreat(idx) == idx - 1

\* the guard of handleStepForward, line 185
CanStepForward(idx, len) == idx < len - 1

\* the guard of handleStepBackward, line 192
CanStepBackward(idx) == idx > 0

\* lines 147, 150-152: generateSteps returns and the mount effect calls setSteps.
\* The playback effect's first run, in the same flush, sees steps = [] and
\* isPlaying = false: it sets no timer and its setIsPlaying(false) changes nothing.
\* The render of the new steps comes in a later task.
MountSetSteps ==
    /\ AtReturn(Eng)
    /\ pc' = "done"
    /\ stepsState' = TraceView(steps, heap)
    /\ effectDue' = (Len(stepsState') # Len(stepsState))
    /\ UNCHANGED <<input, heap, bars, arr, steps, partitionCount, stack,
                   currentStepIndex, isPlaying, animationSpeed, arraySize, timer, rendered>>

\* PlaybackEffect without its cleanup: a timeout that is not rescheduled stays pending
PlaybackEffectNoCleanup ==
    /\ pc = "done"
    /\ effectDue
    /\ IF isPlaying /\ currentStepIndex < Len(stepsState) - 1
         THEN /\ timer' = animationSpeed
              /\ isPlaying' = isPlaying
         ELSE /\ timer' = timer
              /\ isPlaying' = IF currentStepIndex >= Len(stepsState) - 1
                                THEN FALSE ELSE isPlaying
    /\ effectDue' = (isPlaying' # isPlaying)
    /\ rendered' = Captured(currentStepIndex, isPlaying, stepsState, arraySize)
    /\ UNCHANGED <<engineVars, stepsState, currentStepIndex, animationSpeed, arraySize>>

\* lines 154-164: the render of the queued updates (if it has not happened yet), the
\* cleanup of the previous run (clearTimeout), then the body; the setIsPlaying(false)
\* of the body is an update queued by an effect
PlaybackEffect ==
    /\ pc = "done"
    /\ effectDue
    /\ IF isPlaying /\ currentStepIndex < Len(stepsState) - 1
         THEN /\ timer' = animationSpeed
              /\ isPlaying' = isPlaying
         ELSE /\ timer' = 0
              /\ isPlaying' = IF currentStepIndex >= Len(stepsState) - 1
                                THEN FALSE ELSE isPlaying
    /\ effectDue' = (isPlaying' # isPlaying)
    /\ rendered' = Captured(currentStepIndex, isPlaying, stepsState, arraySize)
    /\ UNCHANGED <<engineVars, stepsState, currentStepIndex, animationSpeed, arraySize>>

\* lines 157-159: the timeout fires; its update is rendered in a later task
TimerTick ==
    /\ Idle
    /\ timer # 0
    /\ timer' = 0
    /\ currentStepIndex' = Advance(currentStepIndex)
    /\ effectDue' = TRUE
    /\ UNCHANGED <<engineVars, stepsState, isPlaying, animationSpeed, arraySize, rendered>>

\* lines 168-170: setIsPlaying(!isPlaying), isPlaying read from the closure
handlePlayPause ==
    /\ Idle
    /\ isPlaying' = ~rendered.isPlaying
    /\ effectDue' = TRUE
    /\ UNCHANGED <<engineVars, stepsState, currentStepIndex, animationSpeed, arraySize, timer>>
    /\ RenderNow

\* lines 172-175
handleReset ==
    /\ Idle
    /\ currentStepIndex' = 0
    /\ isPlaying' = FALSE
    /\ UNCHANGED <<engineVars, stepsState, animationSpeed, arraySize, timer>>
    /\ effectDue' = (effectDue \/ DepsChanged)
    /\ RenderNow

\* lines 177-182: arraySize read from the closure
handleRandomize ==
    /\ Idle
    /\ \E seed \in Seeds :
         stepsState' = RandomTrace[rendered.arraySize, seed]
    /\ isPlaying' = FALSE
    /\ currentStepIndex' = 0
    /\ UNCHANGED <<engineVars, animationSpeed, arraySize, timer>>
    /\ effectDue' = (effectDue \/ DepsChanged)
    /\ RenderNow

\* lines 184-189: the guard reads currentStepIndex and steps.length from the closure,
\* the updater prev => prev + 1 applies to the queued state
handleStepForward ==
    /\ Idle
    /\ UNCHANGED <<engineVars, animationSpeed, arraySize, timer>>
    /\ IF CanStepForward(rendered.currentStepIndex, rendered.length)
         THEN /\ currentStepIndex' = Advance(currentStepIndex)
              /\ isPlaying' = FALSE
              /\ effectDue' = TRUE
              /\ UNCHANGED stepsState
              /\ RenderNow
         ELSE UNCHANGED <<stepsState, currentStepIndex, isPlaying, effectDue, rendered>>

\* lines 191-196: the guard reads currentStepIndex from the closure, the updater
\* prev => prev - 1 applies to the queued state
handleStepBackward ==
    /\ Idle
    /\ UNCHANGED <<engineVars, animationSpeed, arraySize, timer>>
    /\ IF CanStepBackward(rendered.currentStepIndex)
         THEN /\ currentStepIndex' = Retreat(currentStepIndex)
              /\ isPlaying' = FALSE
              /\ effectDue' = TRUE
              /\ UNCHANGED stepsState
              /\ RenderNow
         ELSE UNCHANGED <<stepsState, currentStepIndex, isPlaying, effectDue, rendered>>

\* line 295: the speed slider's onChange
ChangeSpeed ==
    /\ Idle
    /\ \E v \in Speeds \ {animationSpeed} : animationSpeed' = v
    /\ effectDue' = TRUE
    /\ UNCHANGED <<engineVars, stepsState, currentStepIndex, isPlaying, arraySize, timer>>
    /\ RenderNow

\* lines 305-309: the array-size select's onChange
ChangeArraySize ==
    /\ Idle
    /\ \E newSize \in ArraySizeOptions \ {arraySize} :
         /\ arraySize' = newSize
         /\ \E seed \in Seeds : stepsState' = RandomTrace[newSize, seed]
    /\ UNCHANGED <<engineVars, currentStepIndex, isPlaying, animationSpeed, timer>>
    /\ effectDue' = (effectDue \/ DepsChanged)
    /\ RenderNow

UiNext ==
    \/ MountSetSteps
    \/ PlaybackEffect
    \/ TimerTick
    \/ handlePlayPause
    \/ handleReset
    \/ handleRandomize
    \/ handleStepForward
    \/ handleStepBackward
    \/ ChangeSpeed
    \/ ChangeArraySize

Next == EngineNext \/ UiNext

----------------------------------------------------------------------------
(* Initial states *)

\* the React state after the first render, before any effect ran
UiInit ==
    /\ stepsState = <<>>
    /\ currentStepIndex = 0
    /\ isPlaying = FALSE
    /\ animationSpeed = DEFAULT_ANIMATION_SPEED
    /\ arraySize = InitialArraySize
    /\ timer = 0
    /\ effectDue = FALSE
    /\ rendered = [currentStepIndex |-> 0, isPlaying |-> FALSE, length |-> 0,
                   arraySize |-> InitialArraySize]

EngInitOn(array) ==
    /\ pc = "begin"
    /\ input = array
    /\ heap = <<>>
    /\ bars = <<>>
    /\ arr = <<>>
    /\ steps = <<>>
    /\ partitionCount = 0
    /\ stack = <<>>

SeqsUpTo(n, S) == UNION {[1..k -> S] : k \in 0..n}

\* the inputs on which generateSteps is explored: the small sequences, the program's initial array,
\* the all-equal array and the arrays generateRandomArray yields in the model
RandomArrays == {generateRandomArray(size, seed) : size \in ArraySizeOptions, seed \in Seeds}

Inputs == SeqsUpTo(MaxLen, 1..MaxVal) \cup {INITIAL_ARRAY, <<5, 5, 5>>} \cup RandomArrays

InitEngine == UiInit /\ \E a \in Inputs : EngInitOn(a)

\* generateSteps applied to every input of Inputs
SpecEngine == InitEngine /\ [][EngineNext]_vars

\* lines 44-50 and 150-152: the component as constructed, its mount effect about to
\* call generateSteps(INITIAL_ARRAY)
Init == UiInit /\ EngInitOn(INITIAL_ARRAY)

Spec == Init /\ [][Next]_vars

----------------------------------------------------------------------------
(* Properties of the trace engine *)

\* the k-th Step of the trace under construction, as a consumer reads it (k from 1)
Snap(k) == StepView(steps[k], heap)

LastSnap == Snap(Len(steps))

ValuesOf(s) == [k \in 1..Len(s.array) |-> s.array[k].value]

TagsOf(s) == [k \in 1..Len(s.array) |-> s.array[k].state]

Count(q, v) == Cardinality({k \in 1..Len(q) : q[k] = v})

SameBag(p, q) ==
    /\ Len(p) = Len(q)
    /\ \A k \in 1..Len(p) : Count(p, p[k]) = Count(q, p[k])

\* C1: every Snapshot of the trace has as many elements as the input, and the
\* multiset of its values is the multiset of the input values
C1_MultisetPreserved ==
    \A k \in 1..Len(steps) :
       /\ Len(Snap(k).array) = Len(input)
       /\ SameBag(ValuesOf(Snap(k)), input)

\* a finished trace of an input with a repeated value whose order changed
C1_Witness ==
    /\ pc = "return"
    /\ \E a, b \in 1..Len(input) : a # b /\ input[a] = input[b]
    /\ ValuesOf(LastSnap) # input
    /\ \E k \in 1..Len(steps) : steps[k].activeLineNumber = 4

\* C2: the last Snapshot of a finished trace is in non-decreasing order, every
\* element tagged sorted, pivotIndex -1 and nothing compared; [5,5,5] ends as
\* [5,5,5] and the initial array as [8,9,19,28,37,38,39,39]
C2_TerminalSorted ==
    pc = "return" =>
       /\ \A k \in 1..(Len(input) - 1) :
             ValuesOf(LastSnap)[k] <= ValuesOf(LastSnap)[k + 1]
       /\ \A k \in 1..Len(input) : TagsOf(LastSnap)[k] = "sorted"
       /\ Len(LastSnap.array) = Len(input)
       /\ LastSnap.pivotIndex = -1
       /\ LastSnap.comparing = <<>>
       /\ (input = <<5, 5, 5>> => ValuesOf(LastSnap) = <<5, 5, 5>>)
       /\ (input = INITIAL_ARRAY =>
             ValuesOf(LastSnap) = <<8, 9, 19, 28, 37, 38, 39, 39>>)

\* the finished trace of the program's initial array
C2_Witness ==
    /\ pc = "return"
    /\ input = INITIAL_ARRAY
    /\ ValuesOf(LastSnap) = <<8, 9, 19, 28, 37, 38, 39, 39>>
    /\ TagsOf(LastSnap) = [k \in 1..8 |-> "sorted"]

\* the operations of the trace consumer: playback, navigation, reset
ConsumerOp ==
    \/ handlePlayPause
    \/ PlaybackEffect
    \/ TimerTick
    \/ handleStepForward
    \/ handleStepBackward
    \/ handleReset

\* C3: a Snapshot, once appended, keeps its contents: every step of the build
\* leaves the Snapshots already in the trace as they were (as read through their
\* references), and no consumer operation changes the trace held by the component
C3_SnapshotsImmutable ==
    [][ /\ \A k \in 1..Len(steps) :
              /\ k <= Len(steps')
              /\ StepView(steps'[k], heap') = Snap(k)
        /\ ConsumerOp => stepsState' = stepsState ]_vars

\* the build swapped elements after Snapshots were taken, the consumer has walked to
\* the end of the trace, and the first Snapshot still shows the input
C3_Witness ==
    /\ pc = "done"
    /\ arr # bars
    /\ stepsState = TraceView(steps, heap)
    /\ currentStepIndex = Len(stepsState) - 1
    /\ ValuesOf(stepsState[1]) = input
    /\ ValuesOf(stepsState[Len(stepsState)]) # input

\* C7: the first Snapshot holds the input values in their order, every element
\* tagged default, pivotIndex -1, nothing compared; it is in the trace before
\* quickSort is called and no later Snapshot is an initial Snapshot
C7_InitialSnapshot ==
    /\ pc = "begin" => steps = <<>> /\ stack = <<>> /\ partitionCount = 0
    /\ pc = "sort" => Len(steps) = 1 /\ stack = <<>> /\ partitionCount = 0
    /\ pc # "begin" =>
          /\ Len(steps) >= 1
          /\ Snap(1).array =
                [k \in 1..Len(input) |-> [value |-> input[k], state |-> "default"]]
          /\ Snap(1).pivotIndex = -1
          /\ Snap(1).comparing = <<>>
          /\ Snap(1).activeLineNumber = 1
          /\ \A k \in 2..Len(steps) : Snap(k).activeLineNumber # 1

\* a finished trace whose working array was reordered by the sort
C7_Witness ==
    /\ pc = "return"
    /\ Len(input) >= 3
    /\ ValuesOf(LastSnap) # input
    /\ ValuesOf(Snap(1)) = input

\* C8: an invocation of quickSort with low >= high appends no Snapshot, leaves the
\* working array (and the partition counter) as they are and returns at once; a
\* returned trace has at least 2 Snapshots, and exactly 2 for an input of length
\* 0 or 1
C8_BaseCase ==
    [][ /\ ( /\ pc = "run"
             /\ Len(stack) > 0
             /\ stack[Len(stack)].pc = "entry"
             /\ stack[Len(stack)].low >= stack[Len(stack)].high ) =>
              /\ steps' = steps
              /\ arr' = arr
              /\ heap' = heap
              /\ partitionCount' = partitionCount
              /\ stack' = Pop(stack)
        /\ pc' = "return" =>
              /\ Len(steps') >= 2
              /\ Len(input) <= 1 => Len(steps') = 2 ]_vars

\* the trace of a one-element input after quickSort(arr, 0, 0) returned
C8_Witness ==
    /\ pc = "return"
    /\ Len(input) = 1
    /\ Len(steps) = 2
    /\ partitionCount = 0

\* reading the partition tree off the trace: a partition-start Step (line 2) opens
\* the Snapshots of one invocation, its range is the tagged range, and the next
\* pivot-placed Step (line 5) closes them
Kind(k) == steps[k].activeLineNumber

Starts == {k \in 1..Len(steps) : Kind(k) = 2}

HighOf(s) == steps[s].pivotIndex

LowOf(s) ==
    CHOOSE lo \in 0..HighOf(s) :
       /\ TagsOf(Snap(s))[lo + 1] # "default"
       /\ \A x \in 0..(lo - 1) : TagsOf(Snap(s))[x + 1] = "default"

HasPlaced(s) == \E t \in (s + 1)..Len(steps) : Kind(t) = 5

PlacedOf(s) ==
    CHOOSE t \in (s + 1)..Len(steps) :
       Kind(t) = 5 /\ \A u \in (s + 1)..(t - 1) : Kind(u) # 5

PivotPosOf(s) == steps[PlacedOf(s)].pivotIndex

Within(c, lo, hi) == LowOf(c) >= lo /\ HighOf(c) <= hi

\* the invocations started after s inside the range of s: its descendants
Below(s) == {c \in Starts : c > s /\ Within(c, LowOf(s), HighOf(s))}

LeftOf(s) == {c \in Below(s) : Within(c, LowOf(s), PivotPosOf(s) - 1)}

RightOf(s) == {c \in Below(s) : Within(c, PivotPosOf(s) + 1, HighOf(s))}

\* C9: the trace is the depth-first, left-first linearisation of the partition
\* tree: the Snapshots of an invocation (start, comparisons, swaps, pivot placed)
\* are contiguous and precede those of every invocation below it; every invocation
\* below it lies wholly left or wholly right of the placed pivot; and every
\* Snapshot of the left side precedes every Snapshot of the right side
C9_DepthFirstLeftFirst ==
    /\ \A s \in Starts :
          /\ \A k \in (s + 1)..(IF HasPlaced(s) THEN PlacedOf(s) - 1 ELSE Len(steps)) :
                Kind(k) \in {3, 4}
          /\ HasPlaced(s) =>
                /\ \A c \in Below(s) : c > PlacedOf(s)
                /\ Below(s) = LeftOf(s) \cup RightOf(s)
                /\ \A c \in LeftOf(s) : \A d \in RightOf(s) :
                      HasPlaced(c) /\ PlacedOf(c) < d
    \* the range read off the last partition-start Step is the running invocation's
    /\ ( /\ pc = "run"
         /\ Len(stack) > 0
         /\ stack[Len(stack)].pc \in {"loop", "test"} ) =>
          /\ Starts # {}
          /\ \E s \in Starts :
                /\ \A c \in Starts : c <= s
                /\ LowOf(s) = stack[Len(stack)].low
                /\ HighOf(s) = stack[Len(stack)].high

\* a finished trace with an invocation that has Snapshots on both sides of its pivot
C9_Witness ==
    /\ pc = "return"
    /\ \E s \in Starts : LeftOf(s) # {} /\ RightOf(s) # {}

\* C10: in one invocation the boundary i starts at low - 1, never decreases while
\* the comparison loop runs, stays at most high - 1 until the pivot swap, and the
\* pivot is placed at i + 1, inside [low, high]
C10_BoundaryMonotonic ==
    [][ /\ ( /\ pc = "run"
             /\ Len(stack) > 0
             /\ stack[Len(stack)].pc = "entry"
             /\ stack[Len(stack)].low < stack[Len(stack)].high ) =>
              stack'[Len(stack)].i = stack[Len(stack)].low - 1
        /\ \A d \in 1..Len(stack) :
              stack[d].pc \in {"loop", "test"} =>
                 /\ stack[d].low - 1 <= stack[d].i
                 /\ stack[d].i <= stack[d].high - 1
                 /\ stack'[d].pc \in {"loop", "test", "left"} =>
                       /\ stack'[d].i >= stack[d].i
                       /\ stack'[d].i <= stack[d].high - 1
                 /\ stack'[d].pc = "left" =>
                       /\ steps'[Len(steps')].pivotIndex = stack[d].i + 1
                       /\ stack[d].low <= stack[d].i + 1
                       /\ stack[d].i + 1 <= stack[d].high ]_vars

\* the comparison loop of a range of three or more is over with every element moved
\* left: i has grown from low - 1 to high - 1
C10_Witness ==
    /\ pc = "run"
    /\ Len(stack) > 0
    /\ stack[Len(stack)].pc = "loop"
    /\ stack[Len(stack)].j = stack[Len(stack)].high
    /\ stack[Len(stack)].high - stack[Len(stack)].low >= 2
    /\ stack[Len(stack)].i = stack[Len(stack)].high - 1

----------------------------------------------------------------------------
(* Properties of the component *)

\* C4: on a built trace the cursor stays within the trace after any sequence of
\* consumer operations, New Array and array-size changes included:
\* 0 <= currentStepIndex <= steps.length - 1
C4_CursorInRange ==
    pc = "done" =>
       /\ 0 <= currentStepIndex
       /\ currentStepIndex <= Len(stepsState) - 1

\* C5: the accessor clamps an out-of-range cursor into [0, length-1], so
\* for a cursor beyond the last index it yields the last Snapshot
C5_AccessorClamps ==
    pc = "done" =>
       /\ currentStep # Undefined
       /\ currentStepIndex > Len(stepsState) - 1 =>
             currentStep = stepsState[Len(stepsState)]
       /\ currentStepIndex < 0 => currentStep = stepsState[1]

\* C6: step forward moves the cursor from c to c+1 when c < length-1 and does
\* nothing at the final index; step backward moves it from c to c-1 when c > 0 and
\* does nothing at 0; after a step forward from a valid c < length-1 a step
\* backward is enabled, leads back to c and to the Snapshot shown at c
C6_StepNavigation ==
    [][ /\ handleStepForward =>
              currentStepIndex' = IF currentStepIndex < Len(stepsState) - 1
                                    THEN currentStepIndex + 1
                                    ELSE currentStepIndex
        /\ handleStepBackward =>
              currentStepIndex' = IF currentStepIndex > 0
                                    THEN currentStepIndex - 1
                                    ELSE currentStepIndex
        /\ ( /\ handleStepForward
             /\ currentStepIndex >= 0
             /\ currentStepIndex < Len(stepsState) - 1 ) =>
              /\ CanStepBackward(currentStepIndex')
              /\ Retreat(currentStepIndex') = currentStepIndex
              /\ currentStepOf(stepsState', Retreat(currentStepIndex')) = currentStep
              /\ currentStep = stepsState[currentStepIndex + 1] ]_vars

----------------------------------------------------------------------------
(* Properties of one partition invocation *)

\* the Step appended by the transition, as a consumer reads it
NewSnap == StepView(steps'[Len(steps')], heap')

\* the transition appends a Step while quickSort(arr, low, high) is the running call
EmitsInCall == pc = "run" /\ Len(stack) > 0 /\ Len(steps') = Len(steps) + 1

\* C11: in every Snapshot emitted by the invocation on [low, high], every index of
\* comparing lies in [low, high], pivotIndex lies in [low, high], and at most one
\* element is tagged 'pivot'
C11_IndicesInRange ==
    [][ EmitsInCall =>
          LET low == stack[Len(stack)].low
              high == stack[Len(stack)].high
          IN /\ \A k \in 1..Len(NewSnap.comparing) :
                   low <= NewSnap.comparing[k] /\ NewSnap.comparing[k] <= high
             /\ low <= NewSnap.pivotIndex
             /\ NewSnap.pivotIndex <= high
             /\ Count(TagsOf(NewSnap), "pivot") <= 1 ]_vars

\* a swap Snapshot with two distinct indices was emitted by an invocation on a
\* range that is not the whole array
C11_Witness ==
    /\ pc = "run"
    /\ Len(stack) > 1
    /\ stack[Len(stack)].pc = "loop"
    /\ Kind(Len(steps)) = 4
    /\ steps[Len(steps)].comparing[1] # steps[Len(steps)].comparing[2]
    /\ stack[Len(stack)].high < Len(arr) - 1

----------------------------------------------------------------------------
(* Repeated calls of generateSteps *)

\* the call that returned is the first one: its objects are the first of the heap
FirstCall == bars = FreshRefs(<<>>, Len(input))

\* lines 181 and 308: generateSteps is called again, after an earlier call returned; the
\* new call runs on the same input or on INITIAL_ARRAY.  Nothing is reset here: what the
\* earlier call left behind stays until the statements of the new call overwrite it.
CallAgain ==
    /\ pc = "return"
    /\ FirstCall
    /\ \E b \in {input, INITIAL_ARRAY} : input' = b
    /\ pc' = "begin"
    /\ UNCHANGED <<heap, bars, arr, steps, partitionCount, stack, uiVars>>

RepeatNext == EngineNext \/ CallAgain

\* generateSteps applied to every input of Inputs, then called a second time
SpecRepeat == InitEngine /\ [][RepeatNext]_vars

\* C12: generateSteps is deterministic: a call made after another call, on the same
\* or on a different input, returns the Trace that a first call on its input
\* returns, narration and partition numbering included
C12_Deterministic ==
    pc = "return" => TraceView(steps, heap) = generateSteps(input)

\* a second call returned on an input of several partitions, after a first call
\* on a different input
C12_Witness ==
    /\ pc = "return"
    /\ ~FirstCall
    /\ partitionCount >= 2
    /\ heap[1].value # input[1]
    /\ steps[Len(steps)].partitionInfo
          = "Quick Sort complete after " \o ToString(partitionCount) \o " partitions"

\* the partition-start Step of the running invocation: the last one of the trace
CurrentStart == CHOOSE s \in Starts : \A t \in Starts : t <= s

\* C14: at the pivot-placed Snapshot of the invocation on [low, high], with
\* p = pivotIndex: the element at p has the value that was at index high when the
\* invocation started, every element of [low, p-1] is <= it, every element of
\* [p+1, high] is > it, and the elements outside [low, high] are as they were when
\* the invocation started
C14_PartitionPostcondition ==
    [][ (EmitsInCall /\ steps'[Len(steps')].activeLineNumber = 5) =>
          LET low == stack[Len(stack)].low
              high == stack[Len(stack)].high
              p == NewSnap.pivotIndex
              v == ValuesOf(NewSnap)
              v0 == ValuesOf(Snap(CurrentStart))
          IN /\ HighOf(CurrentStart) = high
             /\ LowOf(CurrentStart) = low
             /\ low <= p /\ p <= high
             /\ v[p + 1] = v0[high + 1]
             /\ \A x \in low..(p - 1) : v[x + 1] <= v[p + 1]
             /\ \A x \in (p + 1)..high : v[x + 1] > v[p + 1]
             /\ \A x \in 0..(Len(v) - 1) :
                   (x < low \/ x > high) => v[x + 1] = v0[x + 1] ]_vars

\* a pivot was placed strictly inside a range that is not the whole array, with an
\* element equal to it on its left
C14_Witness ==
    /\ pc = "run"
    /\ Len(stack) > 1
    /\ stack[Len(stack)].pc = "left"
    /\ Kind(Len(steps)) = 5
    /\ stack[Len(stack)].low < steps[Len(steps)].pivotIndex
    /\ steps[Len(steps)].pivotIndex < stack[Len(stack)].high
    /\ \E x \in stack[Len(stack)].low..(steps[Len(steps)].pivotIndex - 1) :
          ValuesOf(LastSnap)[x + 1] = stack[Len(stack)].pivot

\* the Steps an invocation emits between its partition-start Step s and its
\* pivot-placed Step (or the end of the trace, while it is running)
LoopOf(s) ==
    IF HasPlaced(s) THEN (s + 1)..(PlacedOf(s) - 1) ELSE (s + 1)..Len(steps)

ComparisonsOf(s) == {k \in LoopOf(s) : Kind(k) = 3}

\* the element compared by the comparison Step k and the pivot, as Step k shows them
ComparedValue(k) == ValuesOf(Snap(k))[steps[k].comparing[1] + 1]

PivotValue(k) == ValuesOf(Snap(k))[steps[k].pivotIndex + 1]

\* the comparison loop as the trace shows it, for every invocation
LoopShape ==
    \A s \in Starts :
       /\ \A k \in LoopOf(s) : Kind(k) = 3 \/ Kind(k) = 4
       /\ \A k \in ComparisonsOf(s) :
             /\ steps[k].comparing
                   = << LowOf(s) + Cardinality({u \in ComparisonsOf(s) : u < k}) >>
             /\ steps[k].comparing[1] <= HighOf(s) - 1
             /\ k < Len(steps) =>
                   /\ Kind(k + 1) = 4 <=> ComparedValue(k) <= PivotValue(k)
                   /\ Kind(k + 1) = 3 => ValuesOf(Snap(k + 1)) = ValuesOf(Snap(k))
       /\ \A k \in LoopOf(s) : Kind(k) = 4 => k - 1 \in ComparisonsOf(s)
       /\ HasPlaced(s) => Cardinality(ComparisonsOf(s)) = HighOf(s) - LowOf(s)

\* C15: an invocation emits exactly one comparison Snapshot for each j from low to
\* high-1, in increasing order of j; a comparison Snapshot is immediately followed
\* by a swap Snapshot if and only if the compared element is <= the pivot, equal
\* included; when it is > the pivot no Snapshot is emitted and the working array
\* is unchanged before the next comparison or the pivot placement
C15_ComparisonLoop ==
    /\ []LoopShape
    /\ [][ ( /\ pc = "run"
             /\ Len(stack) > 0
             /\ stack[Len(stack)].pc = "test"
             /\ heap[arr[stack[Len(stack)].j + 1]].value > stack[Len(stack)].pivot ) =>
              /\ steps' = steps
              /\ arr' = arr
              /\ heap' = heap
              /\ stack'[Len(stack')].pc = "loop"
              /\ stack'[Len(stack')].j = stack[Len(stack)].j + 1 ]_vars

\* an invocation placed its pivot after a loop in which an element equal to the
\* pivot was swapped, a smaller one was swapped and a larger one was not
C15_Witness ==
    /\ pc = "run"
    /\ Kind(Len(steps)) = 5
    /\ \E s \in Starts :
          /\ PlacedOf(s) = Len(steps)
          /\ \E k \in ComparisonsOf(s) :
                ComparedValue(k) = PivotValue(k) /\ Kind(k + 1) = 4
          /\ \E k \in ComparisonsOf(s) :
                ComparedValue(k) < PivotValue(k) /\ Kind(k + 1) = 4
          /\ \E k \in ComparisonsOf(s) :
                ComparedValue(k) > PivotValue(k) /\ Kind(k + 1) # 4

RefsOf(a) == {a[k] : k \in 1..Len(a)}

\* C16: the swap and the pivot-placed Snapshots are direct copies of the working
\* array; every element of the working array is tagged 'default' at all times, so
\* every swap Snapshot and every pivot-placed Snapshot has all elements tagged
\* 'default'
C16_WorkingArrayDefault ==
    /\ [] /\ \A k \in 1..Len(arr) : heap[arr[k]].state = "default"
          /\ \A k \in 1..Len(steps) :
                (Kind(k) = 4 \/ Kind(k) = 5) =>
                   /\ \A x \in 1..Len(steps[k].array) :
                         TagsOf(Snap(k))[x] = "default"
                   /\ RefsOf(steps[k].array) = RefsOf(bars)
    /\ [][ ( /\ EmitsInCall
             /\ steps'[Len(steps')].activeLineNumber \in {4, 5} ) =>
              steps'[Len(steps')].array = arr' ]_vars

\* a trace was returned with swap and pivot-placed Snapshots, all 'default', next
\* to comparison Snapshots that carry highlighting
C16_Witness ==
    /\ pc = "return"
    /\ Len(arr) >= 3
    /\ \E k \in 1..Len(steps) : Kind(k) = 4 /\ steps[k].comparing[1] # steps[k].comparing[2]
    /\ \E k \in 1..Len(steps) : Kind(k) = 5
    /\ \E k \in 1..Len(steps) : Kind(k) = 3 /\ Count(TagsOf(Snap(k)), "default") = 0

\* C17: the partition-start Snapshot of the invocation on [low, high] tags index
\* high 'pivot', every other index of [low, high] 'active' and every index outside
\* 'default', with pivotIndex = high and comparing empty; the comparison Snapshot
\* for j is the same except that index j is tagged 'comparing' and comparing is
\* exactly [j]; both show the values of the working array
C17_Highlighting ==
    [][ ( /\ EmitsInCall
          /\ steps'[Len(steps')].activeLineNumber \in {2, 3} ) =>
          LET low == stack[Len(stack)].low
              high == stack[Len(stack)].high
              start == steps'[Len(steps')].activeLineNumber = 2
              j == IF start THEN -1 ELSE stack[Len(stack)].j
          IN /\ NewSnap.pivotIndex = high
             /\ NewSnap.comparing = IF start THEN <<>> ELSE <<j>>
             /\ ~start => low <= j /\ j < high
             /\ Len(NewSnap.array) = Len(arr)
             /\ \A x \in 0..(Len(arr) - 1) :
                   /\ NewSnap.array[x + 1].value = heap[arr[x + 1]].value
                   /\ NewSnap.array[x + 1].state =
                         IF x = high THEN "pivot"
                         ELSE IF x = j THEN "comparing"
                         ELSE IF low <= x /\ x <= high THEN "active"
                         ELSE "default" ]_vars

\* a comparison Snapshot was emitted for a range with indices outside it on both
\* sides and an 'active' index next to the compared one
C17_Witness ==
    /\ pc = "run"
    /\ Len(stack) > 1
    /\ stack[Len(stack)].pc = "test"
    /\ Kind(Len(steps)) = 3
    /\ stack[Len(stack)].low > 0
    /\ stack[Len(stack)].high < Len(arr) - 1
    /\ Count(TagsOf(LastSnap), "active") >= 1
    /\ Count(TagsOf(LastSnap), "comparing") = 1

----------------------------------------------------------------------------
(* Termination of generateSteps *)

\* generateSteps is synchronous code: once called it keeps executing statements
SpecEngineFair == SpecEngine /\ WF_vars(EngineNext)

\* C18: generateSteps terminates on every input; each recursive call of quickSort
\* is on a range strictly smaller than its caller's that excludes the position of
\* the placed pivot; and for an input of n >= 1 elements the Trace has at most
\* n * (n + 1) Snapshots
C18_Terminates ==
    /\ <>(pc = "return")
    /\ [][ (pc = "run" /\ Len(stack) > 0 /\ Len(stack') = Len(stack) + 1) =>
             LET f == stack[Len(stack)]
                 c == stack'[Len(stack')]
             IN /\ f.low <= c.low
                /\ c.high <= f.high
                /\ c.high - c.low < f.high - f.low
                /\ f.i + 1 < c.low \/ c.high < f.i + 1
                /\ f.low <= f.i + 1 /\ f.i + 1 <= f.high ]_vars
    /\ [](Len(input) >= 1 => Len(steps) <= Len(input) * (Len(input) + 1))

\* generateSteps returned, on an input of at least three elements, a Trace of
\* exactly n * (n + 1) Snapshots
C18_Witness ==
    /\ pc = "return"
    /\ Len(input) >= 3
    /\ Len(steps) = Len(input) * (Len(input) + 1)

----------------------------------------------------------------------------
(* Finality of a placed pivot *)

\* C19: once a pivot-placed Snapshot records pivotIndex = p, the value at index p
\* is the same in every later Snapshot of the Trace, the terminal one included
C19_PivotFinal ==
    \A t \in 1..Len(steps) :
       Kind(t) = 5 =>
          /\ 0 <= steps[t].pivotIndex
          /\ steps[t].pivotIndex < Len(steps[t].array)
          /\ \A u \in (t + 1)..Len(steps) :
                ValuesOf(Snap(u))[steps[t].pivotIndex + 1]
                   = ValuesOf(Snap(t))[steps[t].pivotIndex + 1]

\* a Trace was returned in which, after a pivot was placed, other elements were
\* still exchanged and further pivots placed
C19_Witness ==
    /\ pc = "return"
    /\ Kind(Len(steps)) = 6
    /\ \E t \in 1..Len(steps) :
          /\ Kind(t) = 5
          /\ \E u \in (t + 1)..Len(steps) :
                Kind(u) = 4 /\ steps[u].comparing[1] # steps[u].comparing[2]
          /\ \E u \in (t + 1)..Len(steps) :
                Kind(u) = 5 /\ steps[u].pivotIndex # steps[t].pivotIndex

----------------------------------------------------------------------------
(* Timed playback *)

\* React runs an effect whose dependencies changed, and a timeout that stays pending
\* fires; the user is under no obligation to act
SpecLive == Spec /\ WF_vars(PlaybackEffect) /\ WF_vars(TimerTick)

\* C20: a timer tick fires only while isPlaying is true and the cursor is below
\* length-1, and advances the cursor by exactly one; unless the user goes on
\* changing the speed or the size for ever, playback always stops again (isPlaying
\* becomes false), and the effect stops it only with the cursor at or beyond
\* length-1, which a tick never passes; isPlaying is never true in a stable state with the cursor at or
\* beyond the final index; a pending tick is cancelled whenever the play state, the
\* cursor, the trace length or the speed changes, so that a tick pending in a
\* stable state was scheduled for the current play state, cursor and speed, and
\* one scheduled tick advances the cursor at most once
C20_TimedPlayback ==
    /\ [][ /\ TimerTick =>
                /\ isPlaying
                /\ currentStepIndex < Len(stepsState) - 1
                /\ currentStepIndex' = currentStepIndex + 1
                /\ currentStepIndex' <= Len(stepsState') - 1
                /\ timer' = 0
                /\ ~(ENABLED TimerTick)'
           /\ (PlaybackEffect /\ isPlaying /\ ~isPlaying') =>
                currentStepIndex >= Len(stepsState) - 1
           /\ ( /\ pc = "done"
                /\ \/ isPlaying' # isPlaying
                   \/ currentStepIndex' # currentStepIndex
                   \/ Len(stepsState') # Len(stepsState)
                   \/ animationSpeed' # animationSpeed ) =>
                \/ effectDue'
                \/ timer' = 0 ]_vars
    /\ [] ( pc = "done" =>
              /\ (~effectDue /\ currentStepIndex >= Len(stepsState) - 1) => ~isPlaying
              /\ (~effectDue /\ timer # 0) =>
                    /\ isPlaying
                    /\ currentStepIndex < Len(stepsState) - 1
                    /\ timer = animationSpeed
              /\ effectDue => ~ENABLED TimerTick )
    /\ \/ []<>(~isPlaying)
       \/ []<><<ChangeSpeed \/ ChangeArraySize>>_vars

\* playback is one tick from the end of the trace, the tick pending at a speed the
\* user changed
C20_Witness ==
    /\ pc = "done"
    /\ ~effectDue
    /\ isPlaying
    /\ currentStepIndex = Len(stepsState) - 2
    /\ animationSpeed # DEFAULT_ANIMATION_SPEED
    /\ timer = animationSpeed
    /\ ENABLED TimerTick

====
